---- MODULE Spec2Model ----
(***************************************************************************)
(* The session client of the E2E Testing Agent (the React component       *)
(* E2ETestingAgent): its form state, the session record, the              *)
(* clarification dialog, the requests it has in flight and the polling    *)
(* timers it has created.  Every handler runs to its next await in one    *)
(* step (the browser's event loop is single-threaded); the arrival of a   *)
(* response and the firing of a timer are steps of their own.             *)
(*                                                                         *)
(* The form (instruction, clusterConfig) is read only by the three click   *)
(* handlers, and their buttons are enabled exactly when the form's inputs  *)
(* are (isExecuting false): what a handler reads is whatever the user      *)
(* typed last.  The form's content is therefore an input of each click.    *)
(***************************************************************************)
EXTENDS Integers, Sequences, FiniteSets, Bags, TLC

\* ---- bounds of the exploration ----------------------------------------
\* accepted executeTest / handleClarificationResponse / skipClarification calls
MaxCalls == 2
\* status requests in flight at a time
MaxPolls == 2

\* ---- values ------------------------------------------------------------
\* an absent (undefined / null) value and a present one
None == <<>>
Some(x) == <<x>>
\* a string field that is undefined
Undef == "undefined"

\* the id the service puts in the response to the n-th parse request
SessionIds == <<"s1", "s2", "s3", "s4", "s5">>

\* a string that is trimmed is the sequence of its UTF-16 code units
\* WhiteSpace and LineTerminator of ECMAScript: TAB, LF, VT, FF, CR, SP, NBSP,
\* U+1680, U+2000..U+200A, LS, PS, U+202F, U+205F, U+3000, BOM
WhiteSpace ==
  {9, 10, 11, 12, 13, 32, 160, 5760} \cup (8192..8202)
    \cup {8232, 8233, 8239, 8287, 12288, 65279}

\* the instructions typed: "", " ", "\t\n", "\u3000", "a "
Instructions == {<<>>, <<32>>, <<9, 10>>, <<12288>>, <<97, 32>>}
\* the ip and username of the cluster configuration (its password and url
\* only go into the body of the parse request)
ClusterConfigs == [ip : {"", "10.0.0.1"}, username : {"", "admin"}]

\* workflow lists, step lists, HTTP status texts the service may send
WorkflowLists == {<<"w2", "w1">>}
StatusTexts == {"Internal Server Error"}
\* the message of the error a rejected fetch throws
FetchError == <<"Failed to fetch">>

\* clarification questions: a type and the values of the options
Questions == {[type |-> "t1", options |-> <<"x", "y">>],
              [type |-> "t2", options |-> <<"z">>]}

Range(s) == {s[i] : i \in DOMAIN s}

\* ---- state -------------------------------------------------------------
VARIABLES
  isExecuting,            \* the busy flag
  testSession,            \* None or Some(session record)
  executionSteps,
  showClarification,
  clarificationQuestion,  \* None or Some(question)
  selectedOption,         \* "" when nothing is selected
  net,                    \* bag of the requests in flight
  pollers,                \* one entry per pollExecutionStatus call
  calls,                  \* accepted handler calls so far
  lastEvent               \* the step that led to this state

vars == <<isExecuting, testSession, executionSteps,
          showClarification, clarificationQuestion, selectedOption, net,
          pollers, calls, lastEvent>>

ui == <<isExecuting, testSession, executionSteps, showClarification,
        clarificationQuestion, selectedOption>>

\* a request in flight: the closure values its continuation will use
Req(kind, n, sid, command, qtype, choice, result, p) ==
  [kind |-> kind, n |-> n, sid |-> sid, command |-> command, qtype |-> qtype,
   choice |-> choice, result |-> result, p |-> p]
\* the fields of a response body that proceedWithExecution may be handed
Result(workflows, updated_workflows, detected_workflows) ==
  [workflows |-> workflows, updated_workflows |-> updated_workflows,
   detected_workflows |-> detected_workflows]
NoResult == Result(None, None, None)
NoReq == Req("none", 0, Undef, <<>>, "", "", NoResult, 0)

\* the last step: which handler ran, on which request, and what the response said
Event(op, req, status, text) ==
  [op |-> op, n |-> req.n, sid |-> req.sid, p |-> req.p, status |-> status,
   text |-> text]

Send(r) == net (+) SetToBag({r})
Receive(r) == net (-) SetToBag({r})
InFlight(kind) == {r \in BagToSet(net) : r.kind = kind}

\* the number of status requests in flight
StatusInFlight == BagCardinality([r \in InFlight("status") |-> net[r]])

\* ---- pure helpers ---------------------------------------------------------
\* String.prototype.trim
RECURSIVE TrimLeft(_)
TrimLeft(s) ==
  IF s # <<>> /\ Head(s) \in WhiteSpace THEN TrimLeft(Tail(s)) ELSE s
RECURSIVE TrimRight(_)
TrimRight(s) ==
  IF s # <<>> /\ s[Len(s)] \in WhiteSpace
    THEN TrimRight(SubSeq(s, 1, Len(s) - 1))
    ELSE s
Trim(s) == TrimRight(TrimLeft(s))

\* ---- Init ---------------------------------------------------------------
Init ==
  /\ isExecuting = FALSE
  /\ testSession = None
  /\ executionSteps = <<>>
  /\ showClarification = FALSE
  /\ clarificationQuestion = None
  /\ selectedOption = ""
  /\ net = EmptyBag
  /\ pollers = <<>>
  /\ calls = 0
  /\ lastEvent = Event("init", NoReq, None, "")

\* ---- the clarification dialog ---------------------------------------------
\* the clarification dialog is rendered
DialogShown == showClarification /\ clarificationQuestion # None

\* a radio button of the dialog
setSelectedOption(v) ==
  /\ DialogShown
  /\ v \in Range(clarificationQuestion[1].options)
  /\ v # selectedOption
  /\ selectedOption' = v
  /\ lastEvent' = Event("edit", NoReq, None, "")
  /\ UNCHANGED <<isExecuting, testSession, executionSteps,
                 showClarification, clarificationQuestion, net, pollers,
                 calls>>

\* ---- session records ------------------------------------------------------
Session(sessionId, status, command, workflows, errorMessage) ==
  [sessionId |-> sessionId, status |-> status, command |-> command,
   workflows |-> workflows, errorMessage |-> errorMessage]

\* {...prev!}: the fields of prev, none of them when prev is null
SpreadPrev(prev) ==
  IF prev = None THEN Session(Undef, Undef, None, None, None) ELSE prev[1]

\* a || b on optional lists (an empty list is truthy)
OrElse(a, b) == IF a # None THEN a ELSE b

\* a message that drops the status text
HttpError_NoStatusText(prefix, statusText) == <<prefix>>

\* `${prefix}${response.statusText}`
HttpError(prefix, statusText) == <<prefix, statusText>>

\* ---- executeTest -------------------------------------------------------------
\* a validation that forgets the username
RequiredFieldsMissing_NoUsername(instruction, clusterConfig) ==
  Trim(instruction) = <<>> \/ clusterConfig.ip = ""

\* line 75 (and the rest of the button's disabled condition, line 485)
RequiredFieldsMissing(instruction, clusterConfig) ==
  \/ Trim(instruction) = <<>>
  \/ clusterConfig.ip = ""
  \/ clusterConfig.username = ""

\* the statements of executeTest up to its first await
executeTestStart(instruction) ==
  /\ isExecuting' = TRUE
  /\ testSession' = None
  /\ executionSteps' = <<>>
  /\ showClarification' = FALSE
  /\ net' = Send(Req("parse", calls + 1, Undef, instruction, "", "", NoResult, 0))
  /\ calls' = calls + 1
  /\ lastEvent' = Event("executeTest.sent", NoReq, None, "")
  /\ UNCHANGED <<clarificationQuestion, selectedOption, pollers>>

\* a handler that returns at its guard: nothing is set and nothing is sent
returnEarly(op) ==
  /\ lastEvent' = Event(op, NoReq, None, "")
  /\ UNCHANGED <<ui, net, pollers, calls>>

\* a click on Execute Test.  The button is disabled while isExecuting; the
\* rest of its disabled condition is the validation executeTest itself does.
executeTest(instruction, clusterConfig) ==
  /\ ~isExecuting
  /\ IF RequiredFieldsMissing(instruction, clusterConfig)
       THEN returnEarly("executeTest.alert")
       ELSE executeTestStart(instruction)

\* proceedWithExecution up to its await: the execute request
proceedWithExecution(sessionId, command, parseResult) ==
  Req("execute", 0, sessionId, command, "", "", parseResult, 0)

\* a comparison with a status the service never sends
NeedsClarification_WrongLiteral(status) == status = "clarification_needed"

NeedsClarification(status) == status = "needs_clarification"

ParseStatuses == {"needs_clarification", "created"}

\* the parse response is 2xx with a JSON body
parseOk(r, status, detected, q) ==
  LET sid == SessionIds[r.n] IN
  IF NeedsClarification(status)
    THEN /\ clarificationQuestion' = Some(q)
         /\ showClarification' = TRUE
         /\ testSession' = Some(Session(sid, "needs_clarification",
                                 Some(r.command), OrElse(detected, Some(<<>>)), None))
         /\ isExecuting' = FALSE
         /\ net' = Receive(r)
         /\ lastEvent' = Event("parse.ok", r, Some(status), "")
         /\ UNCHANGED <<executionSteps, selectedOption, pollers, calls>>
    ELSE /\ net' = Receive(r) (+) SetToBag({proceedWithExecution(sid, r.command,
                        Result(None, None, detected))})
         /\ lastEvent' = Event("parse.ok", r, Some(status), "")
         /\ UNCHANGED <<ui, pollers, calls>>

\* the catch block of executeTest
parseFailed(r, message, op, text) ==
  /\ testSession' = Some(Session("error", "failed", Some(r.command), Some(<<>>), Some(message)))
  /\ isExecuting' = FALSE
  /\ net' = Receive(r)
  /\ lastEvent' = Event(op, r, None, text)
  /\ UNCHANGED <<executionSteps, showClarification, clarificationQuestion,
                 selectedOption, pollers, calls>>

parseResponse ==
  \E r \in InFlight("parse") :
    \/ \E status \in ParseStatuses, q \in Questions,
          detected \in {None} \cup {Some(w) : w \in WorkflowLists} :
         parseOk(r, status, detected, q)
    \/ \E text \in StatusTexts :
         parseFailed(r, HttpError("Failed to parse instructions: ", text), "parse.http", text)
    \/ parseFailed(r, FetchError, "parse.transport", "")


\* ---- handleClarificationResponse ------------------------------------------------
\* a guard that forgets the selection
ClarificationRejected_NoSelection == testSession = None \/ clarificationQuestion = None

\* the handler's own guard
ClarificationRejected ==
  selectedOption = "" \/ testSession = None \/ clarificationQuestion = None

\* the statements up to the await of the provide_clarification request
clarificationStart(instruction) ==
  /\ isExecuting' = TRUE
  /\ net' = Send(Req("clarify", 0, testSession[1].sessionId, instruction,
                     clarificationQuestion[1].type, selectedOption, NoResult, 0))
  /\ calls' = calls + 1
  /\ lastEvent' = Event("answer.sent", NoReq, None, "")
  /\ UNCHANGED <<testSession, executionSteps, showClarification,
                 clarificationQuestion, selectedOption, pollers>>

\* a click on Continue.  The button exists while the dialog is rendered and is
\* disabled while isExecuting; the handler checks the selection itself.
handleClarificationResponse(instruction) ==
  /\ DialogShown
  /\ ~isExecuting
  /\ IF ClarificationRejected
       THEN returnEarly("answer.alert")
       ELSE clarificationStart(instruction)

\* setTestSession(prev => ({...prev!, status: 'parsing', workflows}))
Resumed(prev, workflows) ==
  Some([SpreadPrev(prev) EXCEPT !.status = "parsing", !.workflows = workflows])

\* setTestSession(prev => ({...prev!, status: 'failed', errorMessage}))
Failed(prev, message) ==
  Some([SpreadPrev(prev) EXCEPT !.status = "failed", !.errorMessage = Some(message)])

\* the provide_clarification response is 2xx
clarificationOk(r, updated) ==
  /\ showClarification' = FALSE
  /\ clarificationQuestion' = None
  /\ selectedOption' = ""
  /\ testSession' = Resumed(testSession, updated)
  /\ net' = Receive(r) (+) SetToBag({proceedWithExecution(r.sid, r.command,
                 Result(None, updated, None))})
  /\ lastEvent' = Event("answer.ok", r, None, "")
  /\ UNCHANGED <<isExecuting, executionSteps, pollers, calls>>

\* the catch block of handleClarificationResponse and of skipClarification
clarificationFailed(r, message, op, text) ==
  /\ testSession' = Failed(testSession, message)
  /\ isExecuting' = FALSE
  /\ showClarification' = FALSE
  /\ net' = Receive(r)
  /\ lastEvent' = Event(op, r, None, text)
  /\ UNCHANGED <<executionSteps, clarificationQuestion, selectedOption,
                 pollers, calls>>

OptionalWorkflows == {None} \cup {Some(w) : w \in WorkflowLists}

clarificationResponse ==
  \E r \in InFlight("clarify") :
    \/ \E updated \in OptionalWorkflows : clarificationOk(r, updated)
    \/ \E text \in StatusTexts :
         clarificationFailed(r, HttpError("Failed to process clarification: ", text),
                             "answer.http", text)
    \/ clarificationFailed(r, FetchError, "answer.transport", "")

\* ---- skipClarification ---------------------------------------------------------
skipStart(instruction) ==
  /\ isExecuting' = TRUE
  /\ net' = Send(Req("skip", 0, testSession[1].sessionId, instruction, "", "", NoResult, 0))
  /\ calls' = calls + 1
  /\ lastEvent' = Event("skip.sent", NoReq, None, "")
  /\ UNCHANGED <<testSession, executionSteps, showClarification,
                 clarificationQuestion, selectedOption, pollers>>

\* a click on Use Defaults
skipClarification(instruction) ==
  /\ DialogShown
  /\ ~isExecuting
  /\ IF testSession = None
       THEN returnEarly("skip.return")
       ELSE skipStart(instruction)

\* the skip_clarification response is 2xx
skipOk(r, workflows) ==
  /\ showClarification' = FALSE
  /\ clarificationQuestion' = None
  /\ testSession' = Resumed(testSession, workflows)
  /\ net' = Receive(r) (+) SetToBag({proceedWithExecution(r.sid, r.command,
                 Result(workflows, None, None))})
  /\ lastEvent' = Event("skip.ok", r, None, "")
  /\ UNCHANGED <<isExecuting, executionSteps, selectedOption, pollers,
                 calls>>

skipResponse ==
  \E r \in InFlight("skip") :
    \/ \E workflows \in OptionalWorkflows : skipOk(r, workflows)
    \/ \E text \in StatusTexts :
         clarificationFailed(r, HttpError("Failed to skip clarification: ", text),
                             "skip.http", text)
    \/ clarificationFailed(r, FetchError, "skip.transport", "")

\* ---- proceedWithExecution, after its await ----------------------------------
\* a fallback that only knows the answer's field
ResultWorkflows_UpdatedOnly(parseResult) ==
  OrElse(parseResult.updated_workflows, Some(<<>>))

\* parseResult.workflows || parseResult.updated_workflows || []
ResultWorkflows(parseResult) ==
  OrElse(parseResult.workflows, OrElse(parseResult.updated_workflows, Some(<<>>)))

\* what pollExecutionStatus creates: an interval and a timeout, with the
\* session id and the instruction its closures hold
Poller(sessionId, command) ==
  [sid |-> sessionId, command |-> command, interval |-> TRUE, timeout |-> TRUE]

pollExecutionStatus(sessionId, command) == Append(pollers, Poller(sessionId, command))

executeOk(r) ==
  /\ testSession' = Some(Session(r.sid, "executing", Some(r.command),
                                 ResultWorkflows(r.result), None))
  /\ pollers' = pollExecutionStatus(r.sid, r.command)
  /\ net' = Receive(r)
  /\ lastEvent' = Event("execute.ok", r, None, "")
  /\ UNCHANGED <<isExecuting, executionSteps, showClarification,
                 clarificationQuestion, selectedOption, calls>>

\* a catch block that forgets the busy flag
executeFailed_StaysBusy(r, message, op, text) ==
  /\ testSession' = Some(Session(r.sid, "failed", Some(r.command), Some(<<>>), Some(message)))
  /\ net' = Receive(r)
  /\ lastEvent' = Event(op, r, None, text)
  /\ UNCHANGED <<isExecuting, executionSteps, showClarification,
                 clarificationQuestion, selectedOption, pollers, calls>>

\* the catch block of proceedWithExecution
executeFailed(r, message, op, text) ==
  /\ testSession' = Some(Session(r.sid, "failed", Some(r.command), Some(<<>>), Some(message)))
  /\ isExecuting' = FALSE
  /\ net' = Receive(r)
  /\ lastEvent' = Event(op, r, None, text)
  /\ UNCHANGED <<executionSteps, showClarification, clarificationQuestion,
                 selectedOption, pollers, calls>>

executeResponse ==
  \E r \in InFlight("execute") :
    \/ executeOk(r)
    \/ \E text \in StatusTexts :
         executeFailed(r, HttpError("Failed to execute test: ", text), "execute.http", text)
    \/ executeFailed(r, FetchError, "execute.transport", "")

\* ---- polling ----------------------------------------------------------------------
StatusReq(p) == Req("status", 0, pollers[p].sid, pollers[p].command, "", "", NoResult, p)

\* the interval callback of poller p fires: it sends a status request
pollTick(p) ==
  /\ pollers[p].interval
  /\ StatusInFlight < MaxPolls
  /\ net' = Send(StatusReq(p))
  /\ lastEvent' = Event("poll.tick", StatusReq(p), None, "")
  /\ UNCHANGED <<ui, pollers, calls>>

\* a stop condition that forgets failed
Terminal_CompletedOnly(status) == status = Some("completed")

\* status.status === 'completed' || status.status === 'failed'
Terminal(status) == status = Some("completed") \/ status = Some("failed")

clearInterval(p) == [pollers EXCEPT ![p].interval = FALSE]

\* a status that is never read from the response
StatusOrExecuting_Ignored(status) == "executing"

\* a status that is absent or the empty string is falsy
Falsy(status) == status = None \/ status = Some("")

\* status.status || 'executing'
StatusOrExecuting(status) == IF Falsy(status) THEN "executing" ELSE status[1]

\* a fallback that forgets the list already known
PolledWorkflows_DropsPrev(workflows, prev) == OrElse(workflows, Some(<<>>))

\* status.workflows || prev?.workflows || []
PolledWorkflows(workflows, prev) ==
  OrElse(workflows, OrElse(SpreadPrev(prev).workflows, Some(<<>>)))

\* the updater passed to setTestSession by the interval callback
Polled(prev, r, body) ==
  Some(Session(r.sid, StatusOrExecuting(body.status), Some(r.command),
               PolledWorkflows(body.workflows, prev), body.error_message))

\* the status response is 2xx
pollOk(r, body) ==
  /\ testSession' = Polled(testSession, r, body)
  /\ IF Terminal(body.status)
       THEN /\ pollers' = clearInterval(r.p)
            /\ isExecuting' = FALSE
            /\ executionSteps' = IF body.steps # None THEN body.steps[1] ELSE executionSteps
       ELSE UNCHANGED <<pollers, isExecuting, executionSteps>>
  /\ net' = Receive(r)
  /\ lastEvent' = Event("poll.ok", r, body.status, "")
  /\ UNCHANGED <<showClarification, clarificationQuestion, selectedOption,
                 calls>>

\* the status response is not 2xx: the callback does nothing
pollNotOk(r, text) ==
  /\ net' = Receive(r)
  /\ lastEvent' = Event("poll.http", r, None, text)
  /\ UNCHANGED <<ui, pollers, calls>>

\* the catch block of the interval callback
pollFailed(r) ==
  /\ pollers' = clearInterval(r.p)
  /\ isExecuting' = FALSE
  /\ net' = Receive(r)
  /\ lastEvent' = Event("poll.transport", r, None, "")
  /\ UNCHANGED <<testSession, executionSteps, showClarification,
                 clarificationQuestion, selectedOption, calls>>

Body(status, workflows, error_message, steps) ==
  [status |-> status, workflows |-> workflows, error_message |-> error_message,
   steps |-> steps]

\* the status responses the service sends
PollBodies ==
  {Body(None, None, None, None),
   Body(Some(""), None, None, None),
   Body(Some("executing"), None, None, None),
   Body(Some("generating"), Some(<<"w1">>), None, None),
   Body(Some("completed"), None, None, Some(<<"step1">>)),
   Body(Some("failed"), Some(<<"w1">>), Some(<<"boom">>), None)}

pollResponse ==
  \E r \in InFlight("status") :
    \/ \E body \in PollBodies : pollOk(r, body)
    \/ \E text \in StatusTexts : pollNotOk(r, text)
    \/ pollFailed(r)

\* a cleanup that clears the busy flag and forgets the interval
pollCeiling_KeepsInterval(p) ==
  /\ pollers[p].timeout
  /\ pollers' = [pollers EXCEPT ![p].timeout = FALSE]
  /\ isExecuting' = FALSE
  /\ lastEvent' = Event("poll.ceiling", Req("status", 0, pollers[p].sid, pollers[p].command, "", "", NoResult, p), None, "")
  /\ UNCHANGED <<testSession, executionSteps, showClarification,
                 clarificationQuestion, selectedOption, net, calls>>

\* the 10 minute timeout of poller p fires
pollCeiling(p) ==
  /\ pollers[p].timeout
  /\ pollers' = [pollers EXCEPT ![p].interval = FALSE, ![p].timeout = FALSE]
  /\ isExecuting' = FALSE
  /\ lastEvent' = Event("poll.ceiling", StatusReq(p), None, "")
  /\ UNCHANGED <<testSession, executionSteps, showClarification,
                 clarificationQuestion, selectedOption, net, calls>>

\* ---- the component -----------------------------------------------------------------
\* the steps of the service, the network and the timers
Environment ==
  \/ parseResponse
  \/ clarificationResponse
  \/ skipResponse
  \/ executeResponse
  \/ \E p \in DOMAIN pollers : pollTick(p)
  \/ pollResponse
  \/ \E p \in DOMAIN pollers : pollCeiling(p)

\* the clicks of the user, at most limit of them accepted
User(limit) ==
  \/ \E v \in {"x", "y", "z"} : setSelectedOption(v)
  \/ calls < limit /\ \E i \in Instructions, c \in ClusterConfigs : executeTest(i, c)
  \/ calls < limit /\ \E i \in Instructions : handleClarificationResponse(i)
  \/ calls < limit /\ \E i \in Instructions : skipClarification(i)

Next == User(MaxCalls) \/ Environment

Spec == Init /\ [][Next]_vars

\* the same component with one more accepted click
WideNext == User(MaxCalls + 1) \/ Environment

WideSpec == Init /\ [][WideNext]_vars

\* the timers always fire in the end: setTimeout has no way to be cancelled here
FairSpec ==
  Spec /\ \A p \in 1..MaxCalls : WF_vars(p \in DOMAIN pollers /\ pollCeiling(p))

\* every request is answered or fails in the end, and every timer fires
LiveSpec ==
  /\ Spec
  /\ WF_vars(parseResponse)
  /\ WF_vars(clarificationResponse)
  /\ WF_vars(skipResponse)
  /\ WF_vars(executeResponse)
  /\ WF_vars(pollResponse)
  /\ \A p \in 1..MaxCalls : WF_vars(p \in DOMAIN pollers /\ pollCeiling(p))

\* ---- properties ---------------------------------------------------------------
session == testSession[1]
ActiveIntervals == {p \in DOMAIN pollers : pollers[p].interval}
Foreground == BagCardinality([r \in InFlight("parse") \cup InFlight("execute") |-> net[r]])
\* request r is sent in this step
Sent(r) == CopiesIn(r, net') > CopiesIn(r, net)
clientState == <<testSession, executionSteps, showClarification,
                 clarificationQuestion, selectedOption, isExecuting>>

\* C1: executeTest called while the instruction is empty or only whitespace, or
\* the ip is empty, or the username is empty, sends no request and leaves the
\* session record, the execution steps, the clarification state and the busy
\* flag as they were.
C1_SubmitRejectedLocally ==
  [][\A i \in Instructions, c \in ClusterConfigs :
       (Trim(i) = <<>> \/ c.ip = "" \/ c.username = "") /\ executeTest(i, c)
         => UNCHANGED <<net, pollers, clientState>>]_vars

C1_Witness == lastEvent.op = "executeTest.alert" /\ ~isExecuting /\ net = EmptyBag

\* C2: a parse response with status needs_clarification leaves the session in
\* needs_clarification with the question stored, the dialog shown and the busy
\* flag cleared, and sends no execute request; an execute request for a session
\* is only ever sent by the step that handles a parse response of that session
\* whose status is not needs_clarification, or a successful answer or skip
\* response of that session.
C2_ClarificationWaits ==
  [][/\ (lastEvent'.op = "parse.ok" /\ lastEvent'.status = Some("needs_clarification"))
          => /\ testSession' # None
             /\ testSession'[1].status = "needs_clarification"
             /\ testSession'[1].sessionId = SessionIds[lastEvent'.n]
             /\ clarificationQuestion' # None
             /\ showClarification'
             /\ ~isExecuting'
     /\ \A r \in BagToSet(net') :
          (r.kind = "execute" /\ Sent(r))
            => \/ /\ lastEvent'.op = "parse.ok"
                  /\ lastEvent'.status # Some("needs_clarification")
                  /\ SessionIds[lastEvent'.n] = r.sid
               \/ /\ lastEvent'.op \in {"answer.ok", "skip.ok"}
                  /\ lastEvent'.sid = r.sid]_vars

C2_Witness ==
  /\ lastEvent.op = "parse.ok"
  /\ lastEvent.status = Some("needs_clarification")
  /\ DialogShown
  /\ InFlight("execute") = {}

\* C3: once a polling loop has handled a status response that says completed
\* or failed its interval is cleared, a cleared interval never runs again and
\* only a running interval sends status requests; a 2xx status response with
\* any other status, or none, leaves the interval as it was.
C3_PollingStopsOnTerminalOnly ==
  [][\A p \in DOMAIN pollers :
       /\ (lastEvent'.op = "poll.ok" /\ lastEvent'.p = p)
            => IF lastEvent'.status \in {Some("completed"), Some("failed")}
                 THEN ~pollers'[p].interval
                 ELSE pollers'[p].interval = pollers[p].interval
       /\ ~pollers[p].interval => ~pollers'[p].interval
       /\ Sent(StatusReq(p)) => pollers[p].interval]_vars

C3_Witness ==
  /\ lastEvent.op = "poll.ok"
  /\ lastEvent.status = Some("failed")
  /\ ~pollers[lastEvent.p].interval
  /\ pollers[lastEvent.p].timeout

\* C4: every polling loop stops in the end: while its interval runs its
\* ceiling timer is pending, the timer's firing clears the interval, and so
\* every running interval is eventually cleared, whatever the service answers;
\* once the timer has fired the loop sends no status request any more.
C4_PollingEnds ==
  /\ \A p \in 1..MaxCalls :
       (p \in DOMAIN pollers /\ pollers[p].interval)
         ~> (p \in DOMAIN pollers /\ ~pollers[p].interval)
  /\ [][\A p \in DOMAIN pollers :
          /\ pollers[p].interval => pollers[p].timeout
          /\ (lastEvent'.op = "poll.ceiling" /\ lastEvent'.p = p)
               => ~pollers'[p].interval /\ ~Sent(StatusReq(p))
          /\ ~pollers[p].timeout
               => ~pollers'[p].interval /\ ~Sent(StatusReq(p))]_vars

C4_Witness ==
  /\ lastEvent.op = "poll.ceiling"
  /\ ~pollers[lastEvent.p].interval
  /\ testSession # None
  /\ session.status = "executing"

\* C5: when the parse request fails, the session becomes failed, with the
\* response's status text in the error message if the response was not 2xx,
\* the busy flag is cleared, and no execute request and no polling loop starts.
C5_ParseFailure ==
  [][(lastEvent'.op \in {"parse.http", "parse.transport"})
       => /\ testSession' # None
          /\ testSession'[1].status = "failed"
          /\ testSession'[1].errorMessage # None
          /\ lastEvent'.op = "parse.http"
               => testSession'[1].errorMessage[1]
                    = <<"Failed to parse instructions: ", lastEvent'.text>>
          /\ ~isExecuting'
          /\ \A r \in BagToSet(net') : r.kind \in {"execute", "status"} => ~Sent(r)
          /\ pollers' = pollers]_vars

C5_Witness ==
  /\ lastEvent.op = "parse.http"
  /\ testSession # None
  /\ session.status = "failed"
  /\ session.errorMessage = Some(<<"Failed to parse instructions: ", "Internal Server Error">>)

\* C6: once the status of the session record is completed or failed, it does
\* not change again until a new submission.
C6_TerminalIsFinal ==
  [][(testSession # None /\ session.status \in {"completed", "failed"})
       => \/ lastEvent'.op = "executeTest.sent"
          \/ (testSession' # None /\ testSession'[1].status = session.status)]_vars

\* C7: never two parse or execute requests in flight at once.
C7_OneForegroundRequest == Foreground <= 1

\* C8: at most one polling interval is active.
C8_OnePollingLoop == Cardinality(ActiveIntervals) <= 1

\* C9: a stored clarification question implies a session record with status
\* needs_clarification.
C9_QuestionOnlyWhileClarifying ==
  clarificationQuestion # None
    => (testSession # None /\ session.status = "needs_clarification")

\* C10: handleClarificationResponse called with no option selected, or with no
\* session or no question, sends no request and leaves the session record, the
\* clarification state and the busy flag as they were.
C10_AnswerRejectedLocally ==
  [][\A i \in Instructions :
       /\ selectedOption = "" \/ testSession = None \/ clarificationQuestion = None
       /\ handleClarificationResponse(i)
       => UNCHANGED <<net, pollers, clientState>>]_vars

C10_Witness == lastEvent.op = "answer.alert" /\ selectedOption = "" /\ DialogShown

\* C11: a response that is not 2xx, to any of the five calls, leaves a session
\* record whose error message contains the response's status text.
C11_StatusTextSurfaced ==
  [][(lastEvent'.op \in {"parse.http", "answer.http", "skip.http", "execute.http",
                         "poll.http"})
       => /\ testSession' # None
          /\ testSession'[1].errorMessage # None
          /\ lastEvent'.text \in Range(testSession'[1].errorMessage[1])]_vars

\* C12: a status request that fails in transport leaves the session failed,
\* with an error message.
C12_PollTransportFails ==
  [][(lastEvent'.op = "poll.transport")
       => /\ testSession' # None
          /\ testSession'[1].status = "failed"
          /\ testSession'[1].errorMessage # None]_vars

\* C13: a status request that fails, in transport or with a response that is
\* not 2xx, stops its polling loop: the interval is cleared in that step.
C13_FailedTickAborts ==
  [][(lastEvent'.op \in {"poll.transport", "poll.http"})
       => ~pollers'[lastEvent'.p].interval]_vars

\* C14: when the ceiling timer of a loop fires and the session has no terminal
\* status, the loop is stopped, the busy flag is false and the session record
\* does not show executing.
C14_CeilingLeavesNonExecuting ==
  [][(/\ lastEvent'.op = "poll.ceiling"
      /\ testSession # None
      /\ session.status \notin {"completed", "failed"})
       => /\ ~pollers'[lastEvent'.p].interval
          /\ ~isExecuting'
          /\ testSession'[1].status # "executing"]_vars

\* C15: a successful skip response that carries a workflow list stores that
\* list, unchanged, in the session record and in the execute request it sends
\* for the same session; a successful execute response of that request leaves
\* the session executing with exactly that list; and from then on the list
\* only changes in a step that handles a response of a new user request or a
\* poll response that carries a workflow list.
C15_SkipWorkflowsVerbatim ==
  [][/\ \A r \in InFlight("skip"), w \in WorkflowLists :
          (lastEvent'.op = "skip.ok" /\ skipOk(r, Some(w)))
            => /\ testSession'[1].workflows = Some(w)
               /\ \E e \in BagToSet(net') :
                    /\ Sent(e)
                    /\ e.kind = "execute"
                    /\ e.sid = r.sid
                    /\ e.result.workflows = Some(w)
     /\ \A e \in InFlight("execute") :
          (lastEvent'.op = "execute.ok" /\ e.result.workflows # None /\ executeOk(e))
            => /\ testSession'[1].sessionId = e.sid
               /\ testSession'[1].status = "executing"
               /\ testSession'[1].workflows = e.result.workflows
     /\ (/\ testSession # None
         /\ session.workflows # None
         /\ \/ lastEvent'.op \in {"edit", "executeTest.alert", "answer.alert",
                                  "skip.return", "answer.sent", "skip.sent",
                                  "poll.tick", "poll.http", "poll.transport",
                                  "poll.ceiling"}
            \/ /\ lastEvent'.op = "poll.ok"
               /\ \E r \in InFlight("status"), body \in PollBodies :
                    body.workflows = None /\ pollOk(r, body))
          => /\ testSession' # None
             /\ testSession'[1].workflows = session.workflows]_vars

C15_Witness ==
  /\ lastEvent.op = "poll.ok"
  /\ lastEvent.status = Some("executing")
  /\ selectedOption # ""
  /\ clarificationQuestion = None
  /\ testSession # None
  /\ session.status = "executing"
  /\ session.workflows = Some(<<"w2", "w1">>)

\* C16: a step that handles a 2xx status response leaves a session record
\* whose status is the response's status, or executing when the response has
\* none or an empty one, whose errorMessage is the response's error_message
\* (none when the response has none), and whose workflow list is the
\* response's list, or, when the response has none, the list known before
\* the step (the empty list when none was known).
C16_PollOverwrites ==
  [][\A r \in InFlight("status"), body \in PollBodies :
       (lastEvent'.op = "poll.ok" /\ pollOk(r, body))
         => /\ testSession' # None
            /\ testSession'[1].status =
                 (IF body.status \in {None, Some("")}
                    THEN "executing"
                    ELSE body.status[1])
            /\ testSession'[1].errorMessage = body.error_message
            /\ testSession'[1].workflows =
                 (IF body.workflows # None THEN body.workflows
                  ELSE IF testSession # None /\ session.workflows # None
                         THEN session.workflows
                         ELSE Some(<<>>))]_vars

\* C16 as stated: the status of the record is the response's status whenever
\* the response has one, and executing only when the response has none.
C16_StatusOfResponse ==
  [][\A r \in InFlight("status"), body \in PollBodies :
       (lastEvent'.op = "poll.ok" /\ pollOk(r, body))
         => /\ testSession' # None
            /\ testSession'[1].status =
                 (IF body.status = None THEN "executing" ELSE body.status[1])]_vars

C16_Witness ==
  /\ lastEvent.op = "poll.ok"
  /\ lastEvent.status = Some("")
  /\ testSession # None
  /\ session.status = "executing"
  /\ session.workflows = Some(<<"w2", "w1">>)
  /\ session.errorMessage = None

\* C17: in the state a poll response with status completed and a steps list
\* leaves, the session record has status completed and the session id of the
\* polling loop, the busy flag is false, the interval of the loop is cleared
\* and executionSteps is the reported list.
C17_CompletedRun ==
  (lastEvent.op = "poll.ok" /\ lastEvent.status = Some("completed"))
    => /\ testSession # None
       /\ session.status = "completed"
       /\ session.sessionId = pollers[lastEvent.p].sid
       /\ session.sessionId = lastEvent.sid
       /\ ~isExecuting
       /\ ~pollers[lastEvent.p].interval
       /\ executionSteps = <<"step1">>

C17_Witness ==
  /\ lastEvent.op = "poll.ok"
  /\ lastEvent.status = Some("completed")
  /\ calls = 1
  /\ Len(pollers) = 1
  /\ session.sessionId = "s1"
  /\ session.status = "completed"
  /\ Len(executionSteps) = 1
  /\ ~isExecuting
  /\ ActiveIntervals = {}

\* C18: the step that accepts an answer sends one provide_clarification
\* request carrying the open session's id, the open question's type and the
\* selected value, and no execute request; the step that handles its 2xx
\* response hides the dialog, clears the question and the selection, sets the
\* status to parsing and sends the execute request for the same session id.
\* Use Defaults does the same with the skip request and no selected value.
C18_AnswerThenExecute ==
  [][/\ (lastEvent'.op \in {"answer.sent", "skip.sent"})
          => /\ \E r \in BagToSet(net') :
                  /\ Sent(r)
                  /\ r.kind = (IF lastEvent'.op = "answer.sent" THEN "clarify" ELSE "skip")
                  /\ r.sid = session.sessionId
                  /\ r.qtype = (IF lastEvent'.op = "answer.sent"
                                  THEN clarificationQuestion[1].type ELSE "")
                  /\ r.choice = (IF lastEvent'.op = "answer.sent"
                                   THEN selectedOption ELSE "")
             /\ \A e \in BagToSet(net') : Sent(e) => e.kind # "execute"
     /\ (lastEvent'.op \in {"answer.ok", "skip.ok"})
          => /\ ~showClarification'
             /\ clarificationQuestion' = None
             /\ selectedOption' = ""
             /\ testSession'[1].status = "parsing"
             /\ \E e \in BagToSet(net') :
                  Sent(e) /\ e.kind = "execute" /\ e.sid = lastEvent'.sid]_vars

\* C19: in every reachable state, a non-empty executionSteps implies that
\* there is a session record and that its status is completed or failed.
C19_StepsOnlyWhenTerminal ==
  executionSteps # <<>>
    => /\ testSession # None
       /\ session.status \in {"completed", "failed"}

\* C20: every step that changes the client's session state (idle when there
\* is no record, the record's status otherwise) follows the table: from
\* needs_clarification only to parsing or failed, from parsing only to
\* executing or failed, from executing only to completed or failed, from
\* completed or failed only to idle.
C20_TransitionTable ==
  [][LET from == IF testSession = None THEN "idle" ELSE session.status
         to == IF testSession' = None THEN "idle" ELSE testSession'[1].status
     IN  from # to
           => /\ from = "needs_clarification" => to \in {"parsing", "failed"}
              /\ from = "parsing" => to \in {"executing", "failed"}
              /\ from = "executing" => to \in {"completed", "failed"}
              /\ from \in {"completed", "failed"} => to = "idle"]_vars

\* C21: a step that handles a transport failure or a non-2xx response of the
\* provide_clarification, skip_clarification or execute_test_plan request
\* leaves a session record with status failed, a non-empty error message and
\* the session id of the request, the busy flag false and the dialog hidden,
\* and starts no polling loop.
C21_FollowUpFailure ==
  [][(lastEvent'.op \in {"answer.http", "answer.transport", "skip.http",
                         "skip.transport", "execute.http", "execute.transport"})
       => /\ testSession' # None
          /\ testSession'[1].status = "failed"
          /\ testSession'[1].errorMessage # None
          /\ testSession'[1].errorMessage[1] # <<>>
          /\ testSession'[1].sessionId = lastEvent'.sid
          /\ ~isExecuting'
          /\ ~showClarification'
          /\ pollers' = pollers
          /\ \A r \in BagToSet(net') : r.kind = "status" => ~Sent(r)]_vars

\* C22: in every reachable state in which a polling interval is active the
\* busy flag is true.
C22_BusyWhilePolling == ActiveIntervals # {} => isExecuting

\* C23: a step that handles a 2xx status response requested for one session
\* while the client has no session record (a new submission cleared it) or
\* holds the record of another session changes neither the session record nor
\* the execution steps.
C23_PollOwnSessionOnly ==
  [][(/\ lastEvent'.op = "poll.ok"
      /\ \/ testSession = None
         \/ session.sessionId # lastEvent'.sid)
       => UNCHANGED <<testSession, executionSteps>>]_vars

\* C24: every provide_clarification request sent carries, as its choice, the
\* value of one of the options of the question that is open when it is sent.
C24_ChoiceOfOpenQuestion ==
  [][\A r \in BagToSet(net') :
       (Sent(r) /\ r.kind = "clarify")
         => /\ clarificationQuestion # None
            /\ r.qtype = clarificationQuestion[1].type
            /\ r.choice \in Range(clarificationQuestion[1].options)]_vars

\* C25: a successful execute response of a request made for a parse response
\* that carried a detected_workflows list leaves a session record, with
\* status executing, whose workflow list is that list.
C25_DetectedWorkflowsKept ==
  [][\A e \in InFlight("execute") :
       (/\ lastEvent'.op = "execute.ok"
        /\ e.result.detected_workflows # None
        /\ executeOk(e))
         => /\ testSession'[1].status = "executing"
            /\ testSession'[1].workflows = e.result.detected_workflows]_vars

\* C26: when every request is answered or fails in the end and every timer
\* fires, a busy flag that is true (as it is after every accepted submit,
\* answer or skip) eventually becomes false.
C26_BusyEnds == isExecuting ~> ~isExecuting

C26_Witness ==
  /\ lastEvent.op = "poll.ceiling"
  /\ calls = MaxCalls
  /\ ~isExecuting
  /\ net = EmptyBag
  /\ ActiveIntervals = {}
  /\ \A p \in DOMAIN pollers : ~pollers[p].timeout

====
